---- MODULE Spec2Model ----
(***************************************************************************)
(* Verification model of the teaching snippets of the repository.  The     *)
(* core is the binary tree of src/unnamed/part_000: a heap of Node objects *)
(* (value, left, right), a root reference, and the operations insert,      *)
(* search, the traversals, findMin/findMax, getHeight, countNodes, invert. *)
(***************************************************************************)
EXTENDS Integers, Sequences, FiniteSets, TLC

\* ---------------------------------------------------------------- bounds
MaxKey == 4        \* keys offered to insert are 1..MaxKey
MaxOps == 5        \* number of mutating calls explored per run
MaxInverts == 2    \* invert calls interleaved into the example's inserts
MaxReadOps == 4    \* mutating calls before the read-only calls of a run
MaxReads == 2      \* read-only calls at the end of a run
MaxNum == 2        \* numbers and digit strings passed to sum are within -MaxNum..MaxNum
MaxLen == 3        \* length of the arrays passed to myFilter
MaxElem == 1       \* numbers stored in those arrays are 0..MaxElem
MaxMachineCalls == 6   \* next() calls made on the state machine
MaxRetriesArg == 3 \* maxRetries passed to fetchWithRetry is 0..MaxRetriesArg
MaxArg == 3        \* the memoized function is called with 0..MaxArg
MaxMemoCalls == 5  \* calls made to the memoized function

Keys == 1..MaxKey

\* ------------------------------------------------------------- JS values
NULL == 0                                   \* the null reference
JSUndefined == [type |-> "undefined", val |-> 0]
JSThis == [type |-> "object", val |-> 0]    \* the tree itself (return this)
JSNull == [type |-> "null", val |-> 0]
JSFalse == [type |-> "boolean", val |-> 0]
JSTrue == [type |-> "boolean", val |-> 1]
JSNumber(n) == [type |-> "number", val |-> n]
JSBoolean(b) == IF b THEN JSTrue ELSE JSFalse
JSArray(s) == [type |-> "array", val |-> s]
\* the string made of the decimal digits of n (Number.prototype.toString)
JSString(n) == [type |-> "string", val |-> n]

\* ------------------------------------------------------------------ state
VARIABLES
  root,      \* BinaryTree.root: a node reference or NULL
  heap,      \* every Node ever constructed: heap[id] = [value, left, right]
  lastOp,    \* the last call made: "none" or the name of the method
  lastArg,   \* its argument (0 when it has none)
  lastRet,   \* the value it returned
  logged,    \* what it wrote with console.log
  prevRet,   \* the value the call before the last one returned
  prevOp,    \* the call before the last one
  prevRoot,  \* root before the last call
  prevHeap,  \* heap before the last call
  prev2Root, \* root before the call before the last one
  prev2Heap, \* heap before the call before the last one
  attempts,  \* the arguments of all insert calls so far, in call order
  successes, \* number of insert calls that returned the tree
  inverts,   \* number of invert calls so far
  reads,     \* number of calls of read-only methods so far
  sumCall,   \* the last call of sum: its arguments and its outcome
  filterCall,\* the last call of myFilter: receiver, arguments, result, callback calls
  machine,   \* the generator object made by stateMachine()
  retry,     \* the generator object made by fetchWithRetry(url, maxRetries)
  memo       \* the closure made by memoize(fibonacci): its cache, and its calls

treeVars == <<root, heap, lastOp, lastArg, lastRet, logged, prevRet, prevOp,
              prevRoot, prevHeap, prev2Root, prev2Heap, attempts, successes,
              inverts, reads>>

otherVars == <<sumCall, filterCall, machine, retry, memo>>

vars == <<treeVars, otherVars>>

\* function Node(value): value, left = null, right = null
Node(value) == [value |-> value, left |-> NULL, right |-> NULL]

\* ------------------------------------------------------------- operations
\* Variant of InsertLoop with the two sides exchanged: larger keys go left.
RECURSIVE InsertLoop_SidesSwapped(_, _, _, _)
InsertLoop_SidesSwapped(h, current, value, new) ==
  IF value = h[current].value
    THEN [heap |-> h, ret |-> JSUndefined]
    ELSE IF value > h[current].value
      THEN IF h[current].left = NULL
             THEN [heap |-> [h EXCEPT ![current].left = new], ret |-> JSThis]
             ELSE InsertLoop_SidesSwapped(h, h[current].left, value, new)
      ELSE IF h[current].right = NULL
             THEN [heap |-> [h EXCEPT ![current].right = new], ret |-> JSThis]
             ELSE InsertLoop_SidesSwapped(h, h[current].right, value, new)

\* Variant of InsertLoop without the equality test: an equal key goes right.
RECURSIVE InsertLoop_NoEqualityTest(_, _, _, _)
InsertLoop_NoEqualityTest(h, current, value, new) ==
  IF value < h[current].value
    THEN IF h[current].left = NULL
           THEN [heap |-> [h EXCEPT ![current].left = new], ret |-> JSThis]
           ELSE InsertLoop_NoEqualityTest(h, h[current].left, value, new)
    ELSE IF h[current].right = NULL
           THEN [heap |-> [h EXCEPT ![current].right = new], ret |-> JSThis]
           ELSE InsertLoop_NoEqualityTest(h, h[current].right, value, new)

\* The while(true) loop of insert, from `current`; new is the reference of
\* the freshly constructed newNode.
RECURSIVE InsertLoop(_, _, _, _)
InsertLoop(h, current, value, new) ==
  IF value = h[current].value
    THEN [heap |-> h, ret |-> JSUndefined]
    ELSE IF value < h[current].value
      THEN IF h[current].left = NULL
             THEN [heap |-> [h EXCEPT ![current].left = new], ret |-> JSThis]
             ELSE InsertLoop(h, h[current].left, value, new)
      ELSE IF h[current].right = NULL
             THEN [heap |-> [h EXCEPT ![current].right = new], ret |-> JSThis]
             ELSE InsertLoop(h, h[current].right, value, new)

\* BinaryTree.prototype.insert as a function of (root, heap, value)
InsertResult(r, h, value) ==
  LET h0 == Append(h, Node(value))
      new == Len(h0)
  IN IF r = NULL
       THEN [root |-> new, heap |-> h0, ret |-> JSThis]
       ELSE LET res == InsertLoop(h0, r, value, new)
            IN [root |-> r, heap |-> res.heap, ret |-> res.ret]

\* BinaryTree.prototype.search: the while(current) loop
RECURSIVE SearchLoop(_, _, _)
SearchLoop(h, current, value) ==
  IF current = NULL THEN FALSE
  ELSE IF value = h[current].value THEN TRUE
  ELSE IF value < h[current].value
    THEN SearchLoop(h, h[current].left, value)
    ELSE SearchLoop(h, h[current].right, value)

search(r, h, value) == IF r = NULL THEN FALSE ELSE SearchLoop(h, r, value)

RECURSIVE inOrderTraversal(_, _)
inOrderTraversal(h, node) ==
  IF node # NULL
    THEN inOrderTraversal(h, h[node].left) \o <<h[node].value>>
         \o inOrderTraversal(h, h[node].right)
    ELSE <<>>

RECURSIVE preOrderTraversal(_, _)
preOrderTraversal(h, node) ==
  IF node # NULL
    THEN <<h[node].value>> \o preOrderTraversal(h, h[node].left)
         \o preOrderTraversal(h, h[node].right)
    ELSE <<>>

\* Variant of postOrderTraversal that pushes the node between its subtrees.
RECURSIVE postOrderTraversal_NodeInMiddle(_, _)
postOrderTraversal_NodeInMiddle(h, node) ==
  IF node # NULL
    THEN postOrderTraversal_NodeInMiddle(h, h[node].left) \o <<h[node].value>>
         \o postOrderTraversal_NodeInMiddle(h, h[node].right)
    ELSE <<>>

RECURSIVE postOrderTraversal(_, _)
postOrderTraversal(h, node) ==
  IF node # NULL
    THEN postOrderTraversal(h, h[node].left)
         \o postOrderTraversal(h, h[node].right) \o <<h[node].value>>
    ELSE <<>>

RECURSIVE FindMinLoop(_, _)
FindMinLoop(h, node) ==
  IF h[node].left # NULL THEN FindMinLoop(h, h[node].left) ELSE node

findMin(h, node) ==
  IF node = NULL THEN JSNull ELSE JSNumber(h[FindMinLoop(h, node)].value)

\* Variant of FindMaxLoop that takes a single step to the right.
FindMaxLoop_OneStep(h, node) ==
  IF h[node].right # NULL THEN h[node].right ELSE node

RECURSIVE FindMaxLoop(_, _)
FindMaxLoop(h, node) ==
  IF h[node].right # NULL THEN FindMaxLoop(h, h[node].right) ELSE node

findMax(h, node) ==
  IF node = NULL THEN JSNull ELSE JSNumber(h[FindMaxLoop(h, node)].value)

MathMax(a, b) == IF a >= b THEN a ELSE b

\* Variant of getHeight that gives an absent subtree the height 0.
RECURSIVE getHeight_NullIsZero(_, _)
getHeight_NullIsZero(h, node) ==
  IF node = NULL THEN 0
  ELSE LET leftHeight == getHeight_NullIsZero(h, h[node].left)
           rightHeight == getHeight_NullIsZero(h, h[node].right)
       IN MathMax(leftHeight, rightHeight) + 1

RECURSIVE getHeight(_, _)
getHeight(h, node) ==
  IF node = NULL THEN -1
  ELSE LET leftHeight == getHeight(h, h[node].left)
           rightHeight == getHeight(h, h[node].right)
       IN MathMax(leftHeight, rightHeight) + 1

\* Variant of countNodes that forgets the right subtree.
RECURSIVE countNodes_LeftOnly(_, _)
countNodes_LeftOnly(h, node) ==
  IF node = NULL THEN 0
  ELSE 1 + countNodes_LeftOnly(h, h[node].left)

RECURSIVE countNodes(_, _)
countNodes(h, node) ==
  IF node = NULL THEN 0
  ELSE 1 + countNodes(h, h[node].left) + countNodes(h, h[node].right)

\* Variant of invert that recurses into node.left only.
RECURSIVE invert_LeftOnly(_, _)
invert_LeftOnly(h, node) ==
  IF node = NULL THEN h
  ELSE LET left == h[node].left
           right == h[node].right
           h1 == [h EXCEPT ![node].left = right, ![node].right = left]
       IN invert_LeftOnly(h1, h1[node].left)

\* Variant of invert that swaps the children of the given node only.
invert_RootOnly(h, node) ==
  IF node = NULL THEN h
  ELSE [h EXCEPT ![node].left = h[node].right, ![node].right = h[node].left]

\* BinaryTree.prototype.invert(node): swap the children, then recurse into
\* node.left and node.right as they are after the swap.  Returns the heap.
RECURSIVE invert(_, _)
invert(h, node) ==
  IF node = NULL THEN h
  ELSE LET left == h[node].left
           right == h[node].right
           h1 == [h EXCEPT ![node].left = right, ![node].right = left]
           h2 == invert(h1, h1[node].left)
       IN invert(h2, h1[node].right)

\* The glyphs of visualize: the connector of a last child, of a child with a
\* sibling rendered after it, and the two prefix extensions.
Corner == "corner"     \* corner, two dashes, a space
Tee == "tee"           \* tee, two dashes, a space
Blank == "blank"       \* four spaces
Bar == "bar"           \* vertical bar, three spaces
NoConnector == ""

\* One element of `lines`: prefix + connector + value, the prefix kept as
\* the sequence of the extensions it was concatenated from.
Line(prefix, connector, value) ==
  [prefix |-> prefix, connector |-> connector, value |-> JSString(value)]

\* Variant of buildTreeLines that renders the left child before the right.
RECURSIVE buildTreeLines_LeftFirst(_, _, _, _)
buildTreeLines_LeftFirst(h, node, prefix, isLast) ==
  IF node = NULL THEN <<>>
  ELSE LET connector == IF isLast THEN Corner ELSE Tee
           newPrefix == Append(prefix, IF isLast THEN Blank ELSE Bar)
           hasRight == h[node].right # NULL
           hasLeft == h[node].left # NULL
       IN <<Line(prefix, connector, h[node].value)>>
          \o (IF hasLeft
                THEN buildTreeLines_LeftFirst(h, h[node].left, newPrefix, ~hasRight)
                ELSE <<>>)
          \o (IF hasRight
                THEN buildTreeLines_LeftFirst(h, h[node].right, newPrefix, TRUE)
                ELSE <<>>)

\* const buildTreeLines = (node, prefix = "", isLast = true) => ...: the
\* lines it pushes, in push order.
RECURSIVE buildTreeLines(_, _, _, _)
buildTreeLines(h, node, prefix, isLast) ==
  IF node = NULL THEN <<>>
  ELSE LET connector == IF isLast THEN Corner ELSE Tee
           newPrefix == Append(prefix, IF isLast THEN Blank ELSE Bar)
           hasRight == h[node].right # NULL
           hasLeft == h[node].left # NULL
       IN <<Line(prefix, connector, h[node].value)>>
          \o (IF hasRight
                THEN buildTreeLines(h, h[node].right, newPrefix, ~hasLeft)
                ELSE <<>>)
          \o (IF hasLeft
                THEN buildTreeLines(h, h[node].left, newPrefix, TRUE)
                ELSE <<>>)

\* What a call writes with console.log: a message and the tree lines.
NoLog == [message |-> "", lines |-> <<>>]

\* BinaryTree.prototype.visualize: the console output of the call
visualize(h, r) ==
  IF r = NULL THEN [message |-> "Tree is empty", lines |-> <<>>]
  ELSE LET hasRight == h[r].right # NULL
           hasLeft == h[r].left # NULL
       IN [message |-> "",
           lines |-> <<Line(<<>>, NoConnector, h[r].value)>>
             \o (IF hasRight
                   THEN buildTreeLines(h, h[r].right, <<>>, ~hasLeft)
                   ELSE <<>>)
             \o (IF hasLeft
                   THEN buildTreeLines(h, h[r].left, <<>>, TRUE)
                   ELSE <<>>)]

\* The read-only methods, and the traversals among them
Traversals == {"inOrderTraversal", "preOrderTraversal", "postOrderTraversal"}

ReadOps == Traversals \cup {"search", "findMin", "findMax", "getHeight",
                            "countNodes", "visualize"}

\* Variant of ReadResult in which a traversal pushes onto the array the
\* previous call returned instead of a new one.
ReadResult_SharedArray(op, arg, r, h, last) ==
  LET result == IF last.type = "array" THEN last.val ELSE <<>>
  IN CASE op = "search" -> JSBoolean(search(r, h, arg))
       [] op = "inOrderTraversal" -> JSArray(result \o inOrderTraversal(h, r))
       [] op = "preOrderTraversal" -> JSArray(result \o preOrderTraversal(h, r))
       [] op = "postOrderTraversal" -> JSArray(result \o postOrderTraversal(h, r))
       [] op = "findMin" -> findMin(h, r)
       [] op = "findMax" -> findMax(h, r)
       [] op = "getHeight" -> JSNumber(getHeight(h, r))
       [] op = "countNodes" -> JSNumber(countNodes(h, r))
       [] op = "visualize" -> JSUndefined

\* The value a read-only method returns when called with its default
\* arguments (node = this.root, result = [] evaluated anew at each call);
\* last is the value the previous call returned.
ReadResult(op, arg, r, h, last) ==
  LET result == <<>>
  IN CASE op = "search" -> JSBoolean(search(r, h, arg))
       [] op = "inOrderTraversal" -> JSArray(result \o inOrderTraversal(h, r))
       [] op = "preOrderTraversal" -> JSArray(result \o preOrderTraversal(h, r))
       [] op = "postOrderTraversal" -> JSArray(result \o postOrderTraversal(h, r))
       [] op = "findMin" -> findMin(h, r)
       [] op = "findMax" -> findMax(h, r)
       [] op = "getHeight" -> JSNumber(getHeight(h, r))
       [] op = "countNodes" -> JSNumber(countNodes(h, r))
       [] op = "visualize" -> JSUndefined

\* ------------------------------------------------------- sum and myFilter
\* the typeof operator on the values of the model
TypeOf(v) ==
  CASE v.type = "null" -> "object"
    [] v.type = "array" -> "object"
    [] OTHER -> v.type

\* how a call ends: not at all yet, by returning a value, by throwing
NotCalled == [kind |-> "none", value |-> JSUndefined]
Return(v) == [kind |-> "return", value |-> v]
Throw(message) == [kind |-> "throw", value |-> [type |-> "error", val |-> message]]

\* Variant of sum that tests the type of its first argument only.
sum_FirstArgumentOnly(a, b) ==
  IF TypeOf(a) # "number"
    THEN Throw("Arguments must be numbers")
    ELSE IF TypeOf(b) = "number" THEN Return(JSNumber(a.val + b.val))
         ELSE Return(JSString(a.val))

\* export const sum = (a, b) => ...
sum(a, b) ==
  IF TypeOf(a) # "number" \/ TypeOf(b) # "number"
    THEN Throw("Arguments must be numbers")
    ELSE Return(JSNumber(a.val + b.val))

\* the values sum is called with
SumArgs ==
  {JSNumber(n) : n \in (0 - MaxNum)..MaxNum} \cup {JSString(n) : n \in 0..MaxNum}
    \cup {JSUndefined, JSNull, JSTrue, JSFalse}

\* sum(a, b)
CallSum == \E a \in SumArgs, b \in SumArgs :
  /\ sumCall' = [a |-> a, b |-> b, outcome |-> sum(a, b)]
  /\ UNCHANGED <<treeVars, filterCall, machine, retry, memo>>

SumNext == CallSum

\* An array slot that was never assigned (a hole of a sparse array)
Hole == [type |-> "hole", val |-> 0]

\* this[i] for the 0-based index i of the array arr
ElementAt(arr, i) == IF arr[i + 1] = Hole THEN JSUndefined ELSE arr[i + 1]

\* ToBoolean of a value of the model
Truthy(v) ==
  CASE v.type = "undefined" -> FALSE
    [] v.type = "null" -> FALSE
    [] v.type = "boolean" -> v.val = 1
    [] v.type = "number" -> v.val # 0
    [] OTHER -> TRUE

\* The callbacks passed to myFilter, and callbackFn.call(thisArg, value,
\* index, array) for each of them.
Callbacks == {"always", "never", "identity", "evenIndex", "isUndefined", "equalsThis"}

CallCallback(fn, thisArg, value, index, array) ==
  CASE fn = "always" -> JSTrue                         \* () => true
    [] fn = "never" -> JSFalse                         \* () => false
    [] fn = "identity" -> value                        \* (v) => v
    [] fn = "evenIndex" -> JSBoolean(index % 2 = 0)    \* (v, i) => i % 2 === 0
    [] fn = "isUndefined" -> JSBoolean(value = JSUndefined)
    [] fn = "equalsThis" -> JSBoolean(value = thisArg) \* function (v) { return v === this }

\* The for loop of myFilter from index i on: the elements pushed onto
\* result and the calls made to callbackFn, in order.
RECURSIVE MyFilterLoop(_, _, _, _)
MyFilterLoop(arr, callbackFn, thisArg, i) ==
  IF ~(i < Len(arr)) THEN [result |-> <<>>, calls |-> <<>>]
  ELSE LET rest == MyFilterLoop(arr, callbackFn, thisArg, i + 1)
           defined == TypeOf(ElementAt(arr, i)) # "undefined"
           call == [thisArg |-> thisArg, value |-> ElementAt(arr, i), index |-> i]
           keep == defined /\ Truthy(CallCallback(callbackFn, thisArg,
                                                  ElementAt(arr, i), i, arr))
       IN [result |-> (IF keep THEN <<ElementAt(arr, i)>> ELSE <<>>) \o rest.result,
           calls |-> (IF defined THEN <<call>> ELSE <<>>) \o rest.calls]

\* Array.prototype.myFilter = function (callbackFn, thisArg) ...
myFilter(arr, callbackFn, thisArg) == MyFilterLoop(arr, callbackFn, thisArg, 0)

Slots == {Hole, JSUndefined} \cup {JSNumber(n) : n \in 0..MaxElem}

Arrays == UNION {[1..n -> Slots] : n \in 0..MaxLen}

ThisArgs == {JSUndefined, JSNumber(MaxElem)}

\* arr.myFilter(callbackFn, thisArg); a call leaves nothing behind for the
\* next one, so a run makes one call.
CallMyFilter == \E arr \in Arrays, callbackFn \in Callbacks, thisArg \in ThisArgs :
  LET res == myFilter(arr, callbackFn, thisArg)
  IN /\ filterCall.outcome.kind = "none"
     /\ filterCall' = [arr |-> arr, callbackFn |-> callbackFn, thisArg |-> thisArg,
                       outcome |-> Return(JSArray(res.result)), calls |-> res.calls]
     /\ UNCHANGED <<treeVars, sumCall, machine, retry, memo>>

FilterNext == CallMyFilter

\* ------------------------------------------------------------ stateMachine
\* the values passed to machine.next(): the five actions the switch knows,
\* any other string, and no argument at all
MachineInputs == {"start", "pause", "resume", "stop", "reset", "other", "undefined"}

\* Variant of Switch in which a paused machine ignores "stop".
Switch_PausedIgnoresStop(state, action) ==
  CASE state = "idle" -> IF action = "start" THEN "running" ELSE state
    [] state = "running" -> IF action = "pause" THEN "paused"
                            ELSE IF action = "stop" THEN "stopped" ELSE state
    [] state = "paused" -> IF action = "resume" THEN "running" ELSE state
    [] state = "stopped" -> IF action = "reset" THEN "idle" ELSE state
    [] OTHER -> state

\* switch (state) { ... }: the value of state after the switch
Switch(state, action) ==
  CASE state = "idle" -> IF action = "start" THEN "running" ELSE state
    [] state = "running" -> IF action = "pause" THEN "paused"
                            ELSE IF action = "stop" THEN "stopped" ELSE state
    [] state = "paused" -> IF action = "resume" THEN "running"
                           ELSE IF action = "stop" THEN "stopped" ELSE state
    [] state = "stopped" -> IF action = "reset" THEN "idle" ELSE state
    [] OTHER -> state

\* machine.next(action).  The first call runs the body from its start to
\* the first `yield state`: the argument of that call is discarded.  Every
\* later call resumes at `const action = yield state`, runs the switch and
\* loops to the next yield.
MachineNext == \E action \in MachineInputs :
  /\ machine.calls < MaxMachineCalls
  /\ machine' =
       IF machine.pc = "start"
         THEN [pc |-> "yield", state |-> "idle", yielded |-> "idle",
               action |-> action, before |-> machine.state,
               calls |-> machine.calls + 1]
         ELSE [pc |-> "yield", state |-> Switch(machine.state, action),
               yielded |-> Switch(machine.state, action),
               action |-> action, before |-> machine.state,
               calls |-> machine.calls + 1]
  /\ UNCHANGED <<treeVars, sumCall, filterCall, retry, memo>>

MachineSpecNext == MachineNext

\* ---------------------------------------------------------- fetchWithRetry
DefaultMaxRetries == 3

\* how one attempt ends: the response is ok and its body parses, fetch
\* rejects, the response is not ok, response.json() rejects
FetchOutcomes == {"ok", "rejected", "not ok", "bad json"}

\* error.message in the catch block
ErrorMessage(outcome) ==
  CASE outcome = "rejected" -> "fetch failed"
    [] outcome = "not ok" -> "HTTP error! status"
    [] outcome = "bad json" -> "invalid json"

FetchEvent(outcome) == [event |-> "fetch", outcome |-> outcome]
YieldEvent(item) == [event |-> "yield", item |-> item]

\* Variant of AttemptResult whose give-up test is attempt > maxRetries.
AttemptResult_GiveUpLate(r, outcome) ==
  IF outcome = "ok"
    THEN [r EXCEPT !.pc = "succeeded",
                   !.trace = r.trace \o <<FetchEvent(outcome),
                     YieldEvent([success |-> TRUE, data |-> "data",
                                 attempt |-> r.attempt + 1])>>]
    ELSE LET attempt == r.attempt + 1
         IN IF attempt > r.maxRetries
              THEN [r EXCEPT !.pc = "failed", !.attempt = attempt,
                             !.trace = r.trace \o <<FetchEvent(outcome),
                               YieldEvent([success |-> FALSE,
                                           error |-> ErrorMessage(outcome),
                                           attempts |-> attempt])>>]
              ELSE [r EXCEPT !.pc = "retrying", !.attempt = attempt,
                             !.trace = r.trace \o <<FetchEvent(outcome),
                               YieldEvent([retrying |-> TRUE, attempt |-> attempt])>>]

\* One pass through the body of the while loop, up to its yield: the try
\* block when the attempt succeeds, the catch block when it fails.
AttemptResult(r, outcome) ==
  IF outcome = "ok"
    THEN [r EXCEPT !.pc = "succeeded",
                   !.trace = r.trace \o <<FetchEvent(outcome),
                     YieldEvent([success |-> TRUE, data |-> "data",
                                 attempt |-> r.attempt + 1])>>]
    ELSE LET attempt == r.attempt + 1
         IN IF attempt >= r.maxRetries
              THEN [r EXCEPT !.pc = "failed", !.attempt = attempt,
                             !.trace = r.trace \o <<FetchEvent(outcome),
                               YieldEvent([success |-> FALSE,
                                           error |-> ErrorMessage(outcome),
                                           attempts |-> attempt])>>]
              ELSE [r EXCEPT !.pc = "retrying", !.attempt = attempt,
                             !.trace = r.trace \o <<FetchEvent(outcome),
                               YieldEvent([retrying |-> TRUE, attempt |-> attempt])>>]

\* fetchWithRetry(url, maxRetries = 3): the call makes the generator object
RetryStart == \E arg \in {JSUndefined} \cup {JSNumber(m) : m \in 0..MaxRetriesArg} :
  /\ retry.pc = "idle"
  /\ retry' = [pc |-> "start",
               maxRetries |-> IF arg = JSUndefined THEN DefaultMaxRetries ELSE arg.val,
               attempt |-> 0, trace |-> <<>>]
  /\ UNCHANGED <<treeVars, sumCall, filterCall, machine, memo>>

\* next() of the for await loop when the while condition holds
RetryAttempt == \E outcome \in FetchOutcomes :
  /\ retry.pc \in {"start", "retrying"}
  /\ retry.attempt < retry.maxRetries
  /\ retry' = AttemptResult(retry, outcome)
  /\ UNCHANGED <<treeVars, sumCall, filterCall, machine, memo>>

\* next() when the while condition fails: the body ends
RetryLoopExit ==
  /\ retry.pc \in {"start", "retrying"}
  /\ ~(retry.attempt < retry.maxRetries)
  /\ retry' = [retry EXCEPT !.pc = "done"]
  /\ UNCHANGED <<treeVars, sumCall, filterCall, machine, memo>>

\* next() after the success or the failure item: the `return` behind the yield
RetryReturn ==
  /\ retry.pc \in {"succeeded", "failed"}
  /\ retry' = [retry EXCEPT !.pc = "done"]
  /\ UNCHANGED <<treeVars, sumCall, filterCall, machine, memo>>

RetryNext == RetryStart \/ RetryAttempt \/ RetryLoopExit \/ RetryReturn

\* ------------------------------------------------------------------ memoize
MemoArgs == 0..MaxArg

RECURSIVE fibonacci(_)
fibonacci(n) == IF n < 2 THEN n ELSE fibonacci(n - 1) + fibonacci(n - 2)

\* memoizedFunction(number) on the cache c: the value returned, whether
\* myFunction was invoked, and the cache afterwards (no statement of
\* memoizedFunction assigns to cache).
memoizedFunction(c, number) ==
  IF Truthy(c[number])
    THEN [value |-> c[number], invoked |-> FALSE, cache |-> c]
    ELSE [value |-> JSNumber(fibonacci(number)), invoked |-> TRUE, cache |-> c]

\* memoizedFibonacci(number)
CallMemoized == \E number \in MemoArgs :
  LET res == memoizedFunction(memo.cache, number)
  IN /\ memo.calls < MaxMemoCalls
     /\ memo' = [cache |-> res.cache,
                 invocations |-> IF res.invoked
                   THEN [memo.invocations EXCEPT ![number] = @ + 1]
                   ELSE memo.invocations,
                 number |-> number, outcome |-> Return(res.value),
                 calls |-> memo.calls + 1]
     /\ UNCHANGED <<treeVars, sumCall, filterCall, machine, retry>>

MemoNext == CallMemoized

\* ---------------------------------------------------------------- actions
Init ==
  /\ root = NULL
  /\ heap = <<>>
  /\ lastOp = "none" /\ lastArg = 0 /\ lastRet = JSUndefined
  /\ logged = NoLog /\ prevRet = JSUndefined
  /\ prevOp = "none"
  /\ prevRoot = NULL /\ prevHeap = <<>>
  /\ prev2Root = NULL /\ prev2Heap = <<>>
  /\ attempts = <<>>
  /\ successes = 0
  /\ inverts = 0
  /\ reads = 0
  /\ sumCall = [a |-> JSUndefined, b |-> JSUndefined, outcome |-> NotCalled]
  /\ filterCall = [arr |-> <<>>, callbackFn |-> "none", thisArg |-> JSUndefined,
                   outcome |-> NotCalled, calls |-> <<>>]
  /\ machine = [pc |-> "start", state |-> "unassigned", yielded |-> "none",
                action |-> "none", before |-> "unassigned", calls |-> 0]
  /\ retry = [pc |-> "idle", maxRetries |-> 0, attempt |-> 0, trace |-> <<>>]
  /\ memo = [cache |-> [n \in MemoArgs |-> JSUndefined],
             invocations |-> [n \in MemoArgs |-> 0],
             number |-> 0, outcome |-> NotCalled, calls |-> 0]

Remember(op, arg, ret) ==
  /\ lastOp' = op /\ lastArg' = arg /\ lastRet' = ret
  /\ prevOp' = lastOp /\ prevRet' = lastRet
  /\ prevRoot' = root /\ prevHeap' = heap
  /\ prev2Root' = prevRoot /\ prev2Heap' = prevHeap

\* tree.insert(value)
DoInsert(value) ==
  LET res == InsertResult(root, heap, value)
  IN /\ root' = res.root
     /\ heap' = res.heap
     /\ attempts' = Append(attempts, value)
     /\ successes' = IF res.ret = JSThis THEN successes + 1 ELSE successes
     /\ Remember("insert", value, res.ret)
     /\ logged' = NoLog
     /\ UNCHANGED <<inverts, reads, otherVars>>

\* tree.invert()
DoInvert ==
  /\ heap' = invert(heap, root)
  /\ inverts' = inverts + 1
  /\ Remember("invert", 0, IF root = NULL THEN JSNull ELSE JSThis)
  /\ logged' = NoLog
  /\ UNCHANGED <<root, attempts, successes, reads, otherVars>>

Insert == \E value \in Keys :
  /\ Len(attempts) + inverts < MaxOps
  /\ DoInsert(value)

Invert ==
  /\ Len(attempts) + inverts < MaxOps
  /\ DoInvert

Next == Insert \/ Invert

\* tree.<op>(arg) for a read-only method: none of them assigns to a field of
\* the tree or of a node.
DoRead(op, arg) ==
  /\ Remember(op, arg, ReadResult(op, arg, root, heap, lastRet))
  /\ logged' = IF op = "visualize" THEN visualize(heap, root) ELSE NoLog
  /\ reads' = reads + 1
  /\ UNCHANGED <<root, heap, attempts, successes, inverts, otherVars>>

\* Runs of mutating calls followed by read-only calls
ReadInsert == \E value \in Keys :
  /\ reads = 0 /\ Len(attempts) + inverts < MaxReadOps
  /\ DoInsert(value)

ReadInvert ==
  /\ reads = 0 /\ Len(attempts) + inverts < MaxReadOps
  /\ DoInvert

Search == \E value \in Keys :
  /\ reads < MaxReads
  /\ DoRead("search", value)

Query == \E op \in ReadOps \ {"search"} :
  /\ reads < MaxReads
  /\ DoRead(op, 0)

ReadNext == ReadInsert \/ ReadInvert \/ Search \/ Query

ReadSpec == Init /\ [][ReadNext]_vars

\* ------------------------------------------- specifications of the snippets
SumSpec == Init /\ [][SumNext]_vars

FilterSpec == Init /\ [][FilterNext]_vars

MachineSpec == Init /\ [][MachineSpecNext]_vars

\* The for await loop of demonstrateRetry keeps calling next() until the
\* generator is done, and every attempt settles.
RetrySpec == Init /\ [][RetryNext]_vars /\ WF_vars(RetryNext)

MemoSpec == Init /\ [][MemoNext]_vars

Spec == Init /\ [][Next]_vars

\* The example usage: const values = [...]; values.map(val => tree.insert(val))
values == <<50, 10, 30, 25, 75, 60, 90, 5, 15, 27, 35, 55, 65, 85, 95>>

ExampleInsert ==
  /\ Len(attempts) < Len(values)
  /\ DoInsert(values[Len(attempts) + 1])

ExampleInvert ==
  /\ inverts < MaxInverts
  /\ DoInvert

ExampleNext == ExampleInsert \/ ExampleInvert

ExampleSpec == Init /\ [][ExampleNext]_vars

\* ------------------------------------------------- vocabulary of the claims
Range(s) == {s[i] : i \in 1..Len(s)}

IsDistinct(s) == \A i, j \in 1..Len(s) : i # j => s[i] # s[j]

Reverse(s) == [i \in 1..Len(s) |-> s[Len(s) + 1 - i]]

Least(S) == CHOOSE x \in S : \A y \in S : x <= y

Greatest(S) == CHOOSE x \in S : \A y \in S : x >= y

\* the elements of a finite set of integers, in strictly ascending order
RECURSIVE Ascending(_)
Ascending(S) ==
  IF S = {} THEN <<>> ELSE <<Least(S)>> \o Ascending(S \ {Least(S)})

\* the references of the nodes reachable from node
RECURSIVE NodesFrom(_, _)
NodesFrom(h, node) ==
  IF node = NULL THEN {}
  ELSE {node} \cup NodesFrom(h, h[node].left) \cup NodesFrom(h, h[node].right)

KeysFrom(h, node) == {h[n].value : n \in NodesFrom(h, node)}

\* the tree as a value: <<>> for null, <<key, left shape, right shape>>
RECURSIVE Shape(_, _)
Shape(h, node) ==
  IF node = NULL THEN <<>>
  ELSE <<h[node].value, Shape(h, h[node].left), Shape(h, h[node].right)>>

\* the number of edges from the start node to every node below it
RECURSIVE Levels(_, _, _)
Levels(h, node, d) ==
  IF node = NULL THEN {}
  ELSE {d} \cup Levels(h, h[node].left, d + 1)
           \cup Levels(h, h[node].right, d + 1)

\* ------------------------------------------------------------------ claims

\* C1: after inserting pairwise-distinct keys in any order into an empty
\* tree (no invert), inOrderTraversal() is exactly the inserted keys, each
\* once, in strictly ascending order.
C1_InOrderAscending ==
  (inverts = 0 /\ IsDistinct(attempts)) =>
    inOrderTraversal(heap, root) = Ascending(Range(attempts))

C1_Witness ==
  /\ inverts = 0 /\ IsDistinct(attempts) /\ Len(attempts) >= 3
  /\ attempts # Ascending(Range(attempts))
  /\ attempts # Reverse(Ascending(Range(attempts)))

\* C2 (as claimed): every key that was successfully inserted is found by
\* search(k) in every later state reached by insert and invert calls (the
\* tree has no delete, so every stored key is still undeleted).
C2_SearchStaysTrue ==
  \A k \in KeysFrom(heap, root) : search(root, heap, k)

\* C3 (as claimed): in every state reached by insert and invert calls no key
\* is held by more than one node, so countNodes() is the number of distinct
\* keys in the tree.
C3_NoKeyStoredTwice ==
  /\ \A m, n \in NodesFrom(heap, root) :
       m # n => heap[m].value # heap[n].value
  /\ countNodes(heap, root) = Cardinality(KeysFrom(heap, root))

\* C4 (as claimed): on a tree built by inserts, insert(k) of a key already
\* in the tree leaves shape and keys unchanged and returns false; insert of
\* a key not in the tree returns true.
C4_InsertReturnsBoolean ==
  (lastOp = "insert" /\ inverts = 0) =>
    IF lastArg \in KeysFrom(prevHeap, prevRoot)
      THEN /\ Shape(heap, root) = Shape(prevHeap, prevRoot)
           /\ lastRet = JSFalse
      ELSE lastRet = JSTrue

\* C4 (amended): on a tree built by inserts, insert(k) of a key already in
\* the tree leaves shape and keys unchanged and returns undefined; insert of
\* a key not in the tree adds it and returns the tree object itself.
C4_InsertReturnsThisOrUndefined ==
  (lastOp = "insert" /\ inverts = 0) =>
    IF lastArg \in KeysFrom(prevHeap, prevRoot)
      THEN /\ Shape(heap, root) = Shape(prevHeap, prevRoot)
           /\ KeysFrom(heap, root) = KeysFrom(prevHeap, prevRoot)
           /\ lastRet = JSUndefined
      ELSE /\ lastRet = JSThis
           /\ KeysFrom(heap, root) = KeysFrom(prevHeap, prevRoot) \cup {lastArg}

C4_Witness ==
  /\ lastOp = "insert" /\ inverts = 0
  /\ lastArg \in KeysFrom(prevHeap, prevRoot)
  /\ countNodes(heap, root) >= 2
  /\ lastArg # heap[root].value

\* C5: after any sequence of insert calls on an empty tree, countNodes() is
\* the number of successful (non-duplicate) inserts; a duplicate insert
\* leaves the count alone and a successful one raises it by exactly 1.
C5_CountIsSuccessfulInserts ==
  inverts = 0 =>
    /\ countNodes(heap, root) = successes
    /\ successes = Cardinality(Range(attempts))
    /\ lastOp = "insert" =>
         countNodes(heap, root) = countNodes(prevHeap, prevRoot)
           + (IF lastArg \in KeysFrom(prevHeap, prevRoot) THEN 0 ELSE 1)

C5_Witness ==
  /\ inverts = 0 /\ lastOp = "insert"
  /\ successes >= 2 /\ Len(attempts) > successes
  /\ lastRet = JSThis

\* C6: getHeight() is -1 on the empty tree, 0 on a single node, the longest
\* downward path in edges (1 + the larger child height) otherwise, and a
\* successful insert leaves it unchanged or raises it by exactly 1.
C6_HeightLaw ==
  /\ root = NULL => getHeight(heap, root) = -1
  /\ (root # NULL /\ heap[root].left = NULL /\ heap[root].right = NULL)
       => getHeight(heap, root) = 0
  /\ root # NULL => getHeight(heap, root) = Greatest(Levels(heap, root, 0))
  /\ \A n \in NodesFrom(heap, root) :
       getHeight(heap, n) = 1 + MathMax(getHeight(heap, heap[n].left),
                                        getHeight(heap, heap[n].right))
  /\ (lastOp = "insert" /\ lastRet = JSThis) =>
       getHeight(heap, root) - getHeight(prevHeap, prevRoot) \in {0, 1}

C6_Witness ==
  /\ lastOp = "insert" /\ lastRet = JSThis
  /\ getHeight(prevHeap, prevRoot) = 1
  /\ getHeight(heap, root) = 1
  /\ countNodes(heap, root) = 3

\* C7 (as claimed): after inserting 50,10,30,25,75,60,90,5,15,27,35,55,65,
\* 85,95 in that order into an empty tree, getHeight() returns 3.
C7_ExampleHeightIs3 ==
  (attempts = values /\ inverts = 0) => getHeight(heap, root) = 3

\* C8: calling invert() twice in a row restores the original structure:
\* the pre-order traversal and the left/right shape of every node are what
\* they were before the first of the two calls.
C8_DoubleInvertRestores ==
  /\ (lastOp = "invert" /\ prevOp = "invert") =>
       /\ preOrderTraversal(heap, root) = preOrderTraversal(prev2Heap, prev2Root)
       /\ Shape(heap, root) = Shape(prev2Heap, prev2Root)
  /\ LET twice == invert(invert(heap, root), root)
     IN /\ preOrderTraversal(twice, root) = preOrderTraversal(heap, root)
        /\ Shape(twice, root) = Shape(heap, root)

C8_Witness ==
  /\ lastOp = "invert" /\ prevOp = "invert"
  /\ countNodes(heap, root) >= 3
  /\ Shape(prevHeap, prevRoot) # Shape(heap, root)
  /\ getHeight(heap, root) >= 2

\* C9: inOrderTraversal() after one invert() is the reverse of what it was
\* before; invert only changes left/right placement, so the keys and the
\* node count are the same before and after.
C9_InvertReversesInOrder ==
  lastOp = "invert" =>
    /\ inOrderTraversal(heap, root) = Reverse(inOrderTraversal(prevHeap, prevRoot))
    /\ KeysFrom(heap, root) = KeysFrom(prevHeap, prevRoot)
    /\ NodesFrom(heap, root) = NodesFrom(prevHeap, prevRoot)
    /\ countNodes(heap, root) = countNodes(prevHeap, prevRoot)
    /\ \A n \in NodesFrom(heap, root) : heap[n].value = prevHeap[n].value

C9_Witness ==
  /\ lastOp = "invert"
  /\ countNodes(heap, root) >= 3
  /\ getHeight(heap, root) >= 2
  /\ heap[root].left # NULL /\ heap[root].right # NULL

\* C10: findMin() and findMax() return null on an empty tree; on a
\* non-empty tree built by inserts only they return the least and the
\* greatest key in the tree.
C10_MinMax ==
  /\ root = NULL => (findMin(heap, root) = JSNull /\ findMax(heap, root) = JSNull)
  /\ (root # NULL /\ inverts = 0) =>
       /\ findMin(heap, root) = JSNumber(Least(KeysFrom(heap, root)))
       /\ findMax(heap, root) = JSNumber(Greatest(KeysFrom(heap, root)))

C10_Witness ==
  /\ inverts = 0 /\ countNodes(heap, root) >= 4
  /\ findMin(heap, root).val # heap[root].value
  /\ findMax(heap, root).val # heap[root].value
  /\ heap[root].right # NULL /\ heap[heap[root].right].right # NULL

\* the position of key k in the sequence s (keys of s pairwise distinct)
Pos(s, k) == CHOOSE i \in 1..Len(s) : s[i] = k

KeysDistinct(h, node) ==
  \A m, n \in NodesFrom(h, node) : m # n => h[m].value # h[n].value

\* every key of A comes before every key of B in the sequence s
AllBefore(s, A, B) == \A a \in A, b \in B : Pos(s, a) < Pos(s, b)

\* C11: pre-order lists a node's key before all keys of its two subtrees,
\* post-order lists it after them, all three traversals list every key of a
\* node's left subtree before every key of its right subtree, and each
\* traversal lists every node exactly once.
C11_TraversalOrders ==
  LET pre == preOrderTraversal(heap, root)
      ino == inOrderTraversal(heap, root)
      post == postOrderTraversal(heap, root)
      all == NodesFrom(heap, root)
  IN /\ Len(pre) = Cardinality(all)
     /\ Len(ino) = Cardinality(all)
     /\ Len(post) = Cardinality(all)
     /\ \A k \in KeysFrom(heap, root) :
          LET held == Cardinality({n \in all : heap[n].value = k})
          IN /\ Cardinality({i \in 1..Len(pre) : pre[i] = k}) = held
             /\ Cardinality({i \in 1..Len(ino) : ino[i] = k}) = held
             /\ Cardinality({i \in 1..Len(post) : post[i] = k}) = held
     /\ KeysDistinct(heap, root) =>
          \A n \in all :
            LET l == KeysFrom(heap, heap[n].left)
                r == KeysFrom(heap, heap[n].right)
                k == heap[n].value
            IN /\ AllBefore(pre, {k}, l \cup r)
               /\ AllBefore(post, l \cup r, {k})
               /\ AllBefore(pre, l, r)
               /\ AllBefore(ino, l, r)
               /\ AllBefore(post, l, r)

C11_Witness ==
  /\ KeysDistinct(heap, root)
  /\ root # NULL /\ heap[root].left # NULL /\ heap[root].right # NULL
  /\ getHeight(heap, root) >= 2
  /\ preOrderTraversal(heap, root) # inOrderTraversal(heap, root)
  /\ postOrderTraversal(heap, root) # inOrderTraversal(heap, root)

\* C12: the read-only operations leave the tree unchanged, and each
\* traversal call returns a fresh result: the same traversal called twice
\* with no mutation in between returns two equal sequences, the second
\* without the first call's output accumulated into it.
C12_ReadsLeaveTreeAndReturnFresh ==
  lastOp \in ReadOps =>
    /\ root = prevRoot /\ heap = prevHeap
    /\ Shape(heap, root) = Shape(prevHeap, prevRoot)
    /\ lastOp \in Traversals =>
         /\ lastRet.type = "array"
         /\ Len(lastRet.val) = countNodes(heap, root)
    /\ (lastOp \in Traversals /\ prevOp = lastOp) => lastRet = prevRet

C12_Witness ==
  /\ lastOp \in Traversals /\ prevOp = lastOp
  /\ countNodes(heap, root) >= 2
  /\ Len(lastRet.val) >= 2

\* the nodes in node, right subtree, left subtree order
RECURSIVE NodeRightLeft(_, _)
NodeRightLeft(h, node) ==
  IF node = NULL THEN <<>>
  ELSE <<node>> \o NodeRightLeft(h, h[node].right)
                \o NodeRightLeft(h, h[node].left)

ParentOf(h, r, n) ==
  CHOOSE p \in NodesFrom(h, r) : h[p].left = n \/ h[p].right = n

\* n is the child of its parent that visualize renders last
RenderedLast(h, r, n) ==
  LET p == ParentOf(h, r, n) IN h[p].left = n \/ h[p].left = NULL

C14_SumOrThrow ==
  sumCall.outcome.kind # "none" =>
    IF sumCall.a.type = "number" /\ sumCall.b.type = "number"
      THEN /\ sumCall.outcome.kind = "return"
           /\ sumCall.outcome.value.type = "number"
           /\ sumCall.outcome.value.val = sumCall.a.val + sumCall.b.val
      ELSE /\ sumCall.outcome.kind = "throw"
           /\ sumCall.outcome.value.type = "error"
           /\ sumCall.outcome.value.val = "Arguments must be numbers"

C14_Witness ==
  /\ sumCall.a = JSNumber(1) /\ sumCall.b = JSString(2)
  /\ sumCall.outcome.kind = "throw"

\* The built-in Array.prototype.filter (ECMAScript): the callback is called
\* for every index that is present, holes are skipped, and the elements for
\* which it returns a truthy value are kept in order.
RECURSIVE BuiltinFilterLoop(_, _, _, _)
BuiltinFilterLoop(arr, callbackFn, thisArg, i) ==
  IF ~(i < Len(arr)) THEN [result |-> <<>>, calls |-> <<>>]
  ELSE LET rest == BuiltinFilterLoop(arr, callbackFn, thisArg, i + 1)
           present == arr[i + 1] # Hole
           call == [thisArg |-> thisArg, value |-> arr[i + 1], index |-> i]
           keep == present /\ Truthy(CallCallback(callbackFn, thisArg,
                                                  arr[i + 1], i, arr))
       IN [result |-> (IF keep THEN <<arr[i + 1]>> ELSE <<>>) \o rest.result,
           calls |-> (IF present THEN <<call>> ELSE <<>>) \o rest.calls]

\* C16 (as claimed): for every array, arrays with undefined elements
\* included, and every predicate, arr.myFilter(p, thisArg) returns what the
\* built-in filter returns, with p called with the same (element, index,
\* array) and thisArg.
C16_MyFilterIsFilter ==
  filterCall.outcome.kind = "return" =>
    LET builtin == BuiltinFilterLoop(filterCall.arr, filterCall.callbackFn,
                                     filterCall.thisArg, 0)
    IN /\ filterCall.outcome.value = JSArray(builtin.result)
       /\ filterCall.calls = builtin.calls

\* The transitions the claim lists, as <<from, action, to>>
Transitions ==
  {<<"idle", "start", "running">>, <<"running", "pause", "paused">>,
   <<"paused", "resume", "running">>, <<"running", "stop", "stopped">>,
   <<"paused", "stop", "stopped">>, <<"stopped", "reset", "idle">>}

MachineStates == {"idle", "running", "paused", "stopped"}

\* the state after applying an action: the listed change, else no change
Apply(state, action) ==
  IF \E t \in Transitions : t[1] = state /\ t[2] = action
    THEN (CHOOSE t \in Transitions : t[1] = state /\ t[2] = action)[3]
    ELSE state

\* C17 (as claimed): the machine starts in "idle", its state is always one
\* of the four, and each next(action), the first one included, yields the
\* state after applying that action by the listed transitions.
C17_EveryNextAppliesItsAction ==
  machine.calls > 0 =>
    /\ machine.state \in MachineStates
    /\ machine.yielded =
         Apply(IF machine.calls = 1 THEN "idle" ELSE machine.before, machine.action)

\* C17 (amended): the first next() only starts the generator: it yields
\* "idle" whatever its argument; each later next(action) changes the state
\* by the listed transitions only and yields the state after applying the
\* action; the state is always one of the four.
C17_TransitionsAfterFirstNext ==
  machine.calls > 0 =>
    /\ machine.state \in MachineStates
    /\ machine.yielded = machine.state
    /\ machine.calls = 1 => machine.state = "idle"
    /\ machine.calls > 1 => machine.state = Apply(machine.before, machine.action)

C17_Witness ==
  /\ machine.calls > 1
  /\ machine.before = "paused" /\ machine.action = "stop"
  /\ machine.yielded = "stopped"

FetchIndexes(t) == {i \in 1..Len(t) : t[i].event = "fetch"}

\* the number of failed attempts among the first i events of t
FailedUpTo(t, i) ==
  Cardinality({j \in FetchIndexes(t) : j <= i /\ t[j].outcome # "ok"})

IsSuccessItem(e) ==
  e.event = "yield" /\ "success" \in DOMAIN e.item /\ e.item.success

IsFailureItem(e) ==
  e.event = "yield" /\ "success" \in DOMAIN e.item /\ ~e.item.success

IsRetryingItem(e) ==
  e.event = "yield" /\ "retrying" \in DOMAIN e.item /\ e.item.retrying

C18_AttemptsAndItems ==
  (retry.pc # "idle" /\ retry.maxRetries >= 1) =>
    LET t == retry.trace
        n == Len(retry.trace)
    IN /\ Cardinality(FetchIndexes(t)) <= retry.maxRetries
       /\ retry.pc = "done" =>
            /\ n > 0
            /\ \/ /\ IsSuccessItem(t[n])
                  /\ t[n].item.attempt = 1 + FailedUpTo(t, n)
               \/ /\ IsFailureItem(t[n])
                  /\ t[n].item.attempts = retry.maxRetries
                  /\ FailedUpTo(t, n) = retry.maxRetries
                  /\ Cardinality(FetchIndexes(t)) = retry.maxRetries
       /\ \A i, j \in FetchIndexes(t) :
            (i < j /\ ~\E k \in FetchIndexes(t) : i < k /\ k < j) =>
              /\ j = i + 2
              /\ IsRetryingItem(t[i + 1])
              /\ t[i + 1].item.attempt = FailedUpTo(t, i)
       /\ \A i \in 1..n :
            (IsSuccessItem(t[i]) \/ IsFailureItem(t[i])) => i = n

\* C18: for maxRetries >= 1 and any pattern of fetch outcomes,
\* fetchWithRetry makes at most maxRetries attempts and then finishes; its
\* last item is a success with attempt = 1 + the failures before it, or,
\* after exactly maxRetries failures, a failure with attempts = maxRetries;
\* between two consecutive attempts it yields exactly one retrying item
\* whose attempt is the number of failures so far; no attempt follows a
\* success or failure item.
C18_RetryBoundedAndFinishes ==
  []C18_AttemptsAndItems /\ <>(retry.pc = "done")

C18_Witness ==
  /\ retry.pc = "done" /\ retry.maxRetries = 3
  /\ Len(retry.trace) = 6
  /\ IsSuccessItem(retry.trace[6])
  /\ retry.trace[6].item.attempt = 3
  /\ IsRetryingItem(retry.trace[4])

\* C19 (as claimed): the memoized function returns f(n) for every argument
\* and, over any sequence of calls, invokes f at most once per distinct
\* argument.
C19_InvokedOncePerArgument ==
  /\ memo.outcome.kind = "return" =>
       memo.outcome.value = JSNumber(fibonacci(memo.number))
  /\ \A n \in MemoArgs : memo.invocations[n] <= 1

====
